---- MODULE Spec2Model ----
(***************************************************************************)
(* A model of src/app.py, the Streamlit script of the Marketing Campaign   *)
(* Analyzer.  One run of the script is a walk of pc from "start" to        *)
(* "done"; every statement group of the script that produces output or     *)
(* can raise is one action.  The try/except of lines 51-159 is modelled by *)
(* the raising disjunct of each action, which appends the generic error    *)
(* and ends the run.                                                       *)
(*                                                                         *)
(* Numbers: Spend and Revenue are naturals, a quotient is an exact         *)
(* fraction <<n, d>> in lowest terms, with the two IEEE specials the code  *)
(* can produce from non-negative operands: Inf (x/0, x > 0) and NaN (0/0). *)
(***************************************************************************)
EXTENDS Integers, Sequences, FiniteSets, TLC

VARIABLES
    uploaded_file,  \* the file uploader's value (line 17)
    pc,             \* position of the running script
    out,            \* the elements the run has put on the page, in order
    df,             \* the DataFrame (line 52 on)
    bound,          \* names of the script's variables that are assigned
    missing_cols,   \* line 72
    err_text,       \* the exception the handler of line 158 reports
    total_spend,    \* line 84
    total_rev,      \* line 85
    total_roas,     \* line 86
    aud_df,         \* lines 115-116
    heat_data,      \* line 129
    heat_axis,      \* the Day axis of the heatmap (lines 132-139)
    ranking         \* lines 145-146

vars == <<uploaded_file, pc, out, df, bound, missing_cols, err_text, total_spend,
          total_rev, total_roas, aud_df, heat_data, heat_axis, ranking>>

\* The longest CSV body, in rows, that Init draws.
MaxRows == 2

(***************************************************************************)
(* Sequences.                                                              *)
(***************************************************************************)
SeqToSet(s) == {s[i] : i \in 1..Len(s)}

Has(cols, name) == \E i \in 1..Len(cols) : cols[i] = name

Count(cols, name) == Cardinality({i \in 1..Len(cols) : cols[i] = name})

ColIdx(cols, name) == CHOOSE i \in 1..Len(cols) : cols[i] = name

RECURSIVE SumSeq(_)
SumSeq(s) == IF s = <<>> THEN 0 ELSE s[1] + SumSeq(Tail(s))

SeqsUpTo(S, n) == UNION {[1..k -> S] : k \in 0..n}

(***************************************************************************)
(* Float division and the arithmetic pandas does on its results.           *)
(***************************************************************************)
RECURSIVE GCD(_, _)
GCD(a, b) == IF b = 0 THEN a ELSE GCD(b, a % b)

NaN == <<0, 0>>

Inf == <<1, 0>>

IsNaN(x) == x = NaN

IsInf(x) == x = Inf

IsFinite(x) == x[2] > 0

Frac(n, d) ==
    IF d = 0 THEN (IF n = 0 THEN NaN ELSE Inf)
    ELSE <<n \div GCD(n, d), d \div GCD(n, d)>>

\* a / b on float64 operands a, b >= 0
Div(a, b) == Frac(a, b)

FAdd(x, y) ==
    IF IsNaN(x) \/ IsNaN(y) THEN NaN
    ELSE IF IsInf(x) \/ IsInf(y) THEN Inf
    ELSE Frac(x[1] * y[2] + y[1] * x[2], x[2] * y[2])

FDivInt(x, k) == IF IsFinite(x) THEN Frac(x[1], x[2] * k) ELSE x

\* x > y on floats (false whenever a NaN is involved)
FGreater(x, y) ==
    /\ ~IsNaN(x) /\ ~IsNaN(y)
    /\ \/ IsInf(x) /\ IsFinite(y)
       \/ IsFinite(x) /\ IsFinite(y) /\ x[1] * y[2] > y[1] * x[2]

RECURSIVE FSum(_)
FSum(s) == IF s = <<>> THEN <<0, 1>> ELSE FAdd(s[1], FSum(Tail(s)))

\* Series.mean() / GroupBy.mean(): NaN entries are skipped (skipna), the mean
\* of no entries is NaN.
FMean(s) ==
    LET kept == SelectSeq(s, LAMBDA x : ~IsNaN(x))
    IN  IF kept = <<>> THEN NaN ELSE FDivInt(FSum(kept), Len(kept))

IntMean(s) == IF s = <<>> THEN NaN ELSE Frac(SumSeq(s), Len(s))

(***************************************************************************)
(* The script's literals.                                                  *)
(***************************************************************************)
\* rename_map matching without regard to case
rename_map_anycase(name) ==
    CASE name \in {"Day", "day", "DAY"} -> "Date"
      [] name \in {"Cost", "cost", "COST"} -> "Spend"
      [] name \in {"Total conv. value", "total conv. value"} -> "Revenue"
      [] OTHER -> name

rename_map(name) ==
    CASE name = "Day" -> "Date"
      [] name = "Cost" -> "Spend"
      [] name = "Total conv. value" -> "Revenue"
      [] OTHER -> name

\* audiences with a sixth label
audiences_with_other == <<"Gen Z", "Millennials", "Gen X", "Boomers", "All", "Other">>

audiences == <<"Gen Z", "Millennials", "Gen X", "Boomers", "All">>

req_cols == <<"Campaign", "Date", "Spend", "Revenue", "Audience">>

days_order ==
    <<"Monday", "Tuesday", "Wednesday", "Thursday", "Friday", "Saturday", "Sunday">>

(***************************************************************************)
(* The DataFrame: column labels, one dtype per column, and the rows, each  *)
(* a sequence of cells aligned with the labels.                            *)
(***************************************************************************)
NoFrame == [cols |-> <<>>, dtypes |-> <<>>, rows |-> <<>>]

NRows(d) == Len(d.rows)

\* df[name] for a label that occurs once
Column(d, name) == [j \in 1..NRows(d) |-> d.rows[j][ColIdx(d.cols, name)]]

\* df[name] = vals: overwrite the column if the label exists, else append it
SetColumn(d, name, dtype, vals) ==
    IF Has(d.cols, name)
    THEN LET i == ColIdx(d.cols, name)
         IN  [d EXCEPT !.dtypes[i] = dtype,
                       !.rows = [j \in 1..NRows(d) |-> [d.rows[j] EXCEPT ![i] = vals[j]]]]
    ELSE [cols |-> Append(d.cols, name),
          dtypes |-> Append(d.dtypes, dtype),
          rows |-> [j \in 1..NRows(d) |-> Append(d.rows[j], vals[j])]]

(***************************************************************************)
(* Line 52, pd.read_csv.  A CSV file is its header, its rows of cells and, *)
(* per column, whether every cell of the column is a numeral: that is what *)
(* read_csv's type inference decides on, giving the column dtype int64     *)
(* (cells become numbers) or object (cells stay text).  A file without a   *)
(* header line has no columns to parse and read_csv raises.                *)
(***************************************************************************)
ReadCsvRaises(file) == Len(file.cols) = 0

read_csv(file) ==
    [cols |-> file.cols,
     dtypes |-> [i \in 1..Len(file.cols) |->
                    IF file.numeral[i] THEN "int64" ELSE "object"],
     rows |-> file.rows]

(***************************************************************************)
(* Lines 56-61, df.rename(columns=rename_map).                             *)
(***************************************************************************)
RenameColumns(d) ==
    [d EXCEPT !.cols = [i \in 1..Len(d.cols) |-> rename_map(d.cols[i])]]

\* MissingCols reporting the first absent column only
MissingColsFirstOnly(d) ==
    LET m == SelectSeq(req_cols, LAMBDA c : ~Has(d.cols, c))
    IN  IF m = <<>> THEN m ELSE <<m[1]>>

(***************************************************************************)
(* Lines 71-72.                                                            *)
(***************************************************************************)
MissingCols(d) == SelectSeq(req_cols, LAMBDA c : ~Has(d.cols, c))

(***************************************************************************)
(* Lines 79-80, pd.to_datetime(df['Date'], dayfirst=True) and              *)
(* .dt.day_name().  A Date cell is the text "a/b/y", held as <<a, b, y>>;  *)
(* with dayfirst a is the day and b the month.  A text that names no       *)
(* calendar day makes to_datetime raise for the whole column, and so does  *)
(* a frame with two Date columns (df['Date'] is then a DataFrame, which    *)
(* to_datetime cannot assemble).                                           *)
(***************************************************************************)
IsLeap(y) == (y % 4 = 0 /\ y % 100 # 0) \/ y % 400 = 0

DaysInMonth(y, m) ==
    IF m = 2 THEN (IF IsLeap(y) THEN 29 ELSE 28)
    ELSE IF m \in {4, 6, 9, 11} THEN 30 ELSE 31

ValidDate(y, m, d) == m \in 1..12 /\ d >= 1 /\ d <= DaysInMonth(y, m)

\* the Timestamp <<year, month, day>> of the text <<a, b, y>>
ParseDayFirst(t) == <<t[3], t[2], t[1]>>

ParsesDayFirst(t) == ValidDate(t[3], t[2], t[1])

ToDatetimeRaises(d) ==
    \/ Count(d.cols, "Date") > 1
    \/ \E j \in 1..NRows(d) : ~ParsesDayFirst(Column(d, "Date")[j])

MonthOffset == <<0, 3, 2, 5, 0, 3, 5, 1, 4, 6, 2, 4>>

\* day of the week of a Gregorian date, 0 = Sunday
Weekday(ts) ==
    LET y == IF ts[2] < 3 THEN ts[1] - 1 ELSE ts[1]
    IN  (y + (y \div 4) - (y \div 100) + (y \div 400) + MonthOffset[ts[2]] + ts[3]) % 7

day_name(ts) ==
    <<"Sunday", "Monday", "Tuesday", "Wednesday", "Thursday", "Friday",
      "Saturday">>[Weekday(ts) + 1]

ParseDates(d) ==
    LET parsed == [j \in 1..NRows(d) |-> ParseDayFirst(Column(d, "Date")[j])]
        d1 == SetColumn(d, "Date", "datetime64", parsed)
    IN  SetColumn(d1, "Day", "object", [j \in 1..NRows(d) |-> day_name(parsed[j])])

(***************************************************************************)
(* Lines 83-86.  Dividing two columns raises TypeError when one of them    *)
(* holds text (dtype object with at least one cell).                       *)
(***************************************************************************)
IsText(d, name) == NRows(d) > 0 /\ d.dtypes[ColIdx(d.cols, name)] = "object"

RoasRaises(d) == IsText(d, "Revenue") \/ IsText(d, "Spend")

RowRoas(d) ==
    [j \in 1..NRows(d) |-> Div(Column(d, "Revenue")[j], Column(d, "Spend")[j])]

AddRoas(d) == SetColumn(d, "ROAS", "float64", RowRoas(d))

TotalSpend(d) == SumSeq(Column(d, "Spend"))

TotalRev(d) == SumSeq(Column(d, "Revenue"))

\* TotalRoas without the guard of line 86
TotalRoasUnguarded(rev, spend) == Div(rev, spend)

TotalRoas(rev, spend) == IF spend > 0 THEN Div(rev, spend) ELSE <<0, 1>>

(***************************************************************************)
(* Lines 104-109, px.scatter(..., size='ROAS').  The marker size is        *)
(* validated as a number >= 0: a NaN in the ROAS column makes the call     *)
(* raise ValueError; an infinite size passes the validator.                *)
(***************************************************************************)
ScatterRaises(d) == \E j \in 1..NRows(d) : IsNaN(Column(d, "ROAS")[j])

(***************************************************************************)
(* groupby(...) sorts its group keys (sort=True); Python orders strings    *)
(* lexicographically.  The three listings below are the key values of the  *)
(* model in that order.                                                    *)
(***************************************************************************)
CampaignsSorted == <<"A", "B">>

AudiencesSorted == <<"All", "Boomers", "Gen X", "Gen Z", "Millennials", "Teens">>

DaysSorted ==
    <<"Friday", "Monday", "Saturday", "Sunday", "Thursday", "Tuesday", "Wednesday">>

SortedKeys(S, order) == SelectSeq(order, LAMBDA k : k \in S)

GroupRows(d, name, key) == SelectSeq(d.rows, LAMBDA r : r[ColIdx(d.cols, name)] = key)

ColOf(d, rows, name) == [j \in 1..Len(rows) |-> rows[j][ColIdx(d.cols, name)]]

(***************************************************************************)
(* Lines 115-116, the Audience view.                                       *)
(***************************************************************************)
AudienceTable(d) ==
    LET keys == SortedKeys(SeqToSet(Column(d, "Audience")), AudiencesSorted)
    IN  [k \in 1..Len(keys) |->
            LET rs == GroupRows(d, "Audience", keys[k])
                sp == SumSeq(ColOf(d, rs, "Spend"))
                rv == SumSeq(ColOf(d, rs, "Revenue"))
            IN  [Audience |-> keys[k], Spend |-> sp, Revenue |-> rv,
                 ROAS |-> Div(rv, sp)]]

(***************************************************************************)
(* Lines 129-139, the heatmap: the aggregate, and the Day axis that        *)
(* category_orders={"Day": days_order} gives the chart (the listed values  *)
(* that occur in the data, in the listed order).                           *)
(***************************************************************************)
DayCampaignSorted ==
    [k \in 1..(Len(DaysSorted) * Len(CampaignsSorted)) |->
        <<DaysSorted[((k - 1) \div Len(CampaignsSorted)) + 1],
          CampaignsSorted[((k - 1) % Len(CampaignsSorted)) + 1]>>]

HeatData(d) ==
    LET pairs == {<<d.rows[j][ColIdx(d.cols, "Day")], d.rows[j][ColIdx(d.cols, "Campaign")]>> :
                    j \in 1..NRows(d)}
        keys == SortedKeys(pairs, DayCampaignSorted)
    IN  [k \in 1..Len(keys) |->
            LET rs == SelectSeq(d.rows, LAMBDA r :
                          /\ r[ColIdx(d.cols, "Day")] = keys[k][1]
                          /\ r[ColIdx(d.cols, "Campaign")] = keys[k][2])
            IN  [Day |-> keys[k][1], Campaign |-> keys[k][2],
                 Revenue |-> SumSeq(ColOf(d, rs, "Revenue"))]]

\* CategoryAxis without category_orders: the days in the order of the table
CategoryAxisAsInData(table, order) ==
    LET days == [k \in 1..Len(table) |-> table[k].Day]
        firsts == {k \in 1..Len(days) : \A i \in 1..(k - 1) : days[i] # days[k]}
    IN  [n \in 1..Cardinality(firsts) |->
            days[CHOOSE k \in firsts : Cardinality({i \in firsts : i < k}) = n - 1]]

CategoryAxis(table, order) ==
    SelectSeq(order, LAMBDA v : \E k \in 1..Len(table) : table[k].Day = v)

(***************************************************************************)
(* Lines 145-146, the leaderboard.  sort_values is called without kind=,   *)
(* so it sorts with numpy's quicksort, which pandas documents as not       *)
(* stable: the order it leaves equal keys in is the build's.  With the two *)
(* campaigns of the model a tie is between two rows, kept in their order   *)
(* or reversed.  NaN keys go last, in their order (na_position='last').    *)
(***************************************************************************)
TieOrders == {"kept", "reversed"}

\* GroupMeans with the ROAS recomputed from the group's sums
GroupMeansRatioOfSums(d) ==
    LET keys == SortedKeys(SeqToSet(Column(d, "Campaign")), CampaignsSorted)
    IN  [k \in 1..Len(keys) |->
            LET rs == GroupRows(d, "Campaign", keys[k])
            IN  [Campaign |-> keys[k],
                 Spend |-> IntMean(ColOf(d, rs, "Spend")),
                 Revenue |-> IntMean(ColOf(d, rs, "Revenue")),
                 ROAS |-> Div(SumSeq(ColOf(d, rs, "Revenue")), SumSeq(ColOf(d, rs, "Spend")))]]

\* GroupMeans grouping by the Audience column
GroupMeansByAudience(d) ==
    LET keys == SortedKeys(SeqToSet(Column(d, "Audience")), AudiencesSorted)
    IN  [k \in 1..Len(keys) |->
            LET rs == GroupRows(d, "Audience", keys[k])
            IN  [Campaign |-> keys[k],
                 Spend |-> IntMean(ColOf(d, rs, "Spend")),
                 Revenue |-> IntMean(ColOf(d, rs, "Revenue")),
                 ROAS |-> FMean(ColOf(d, rs, "ROAS"))]]

GroupMeans(d) ==
    LET keys == SortedKeys(SeqToSet(Column(d, "Campaign")), CampaignsSorted)
    IN  [k \in 1..Len(keys) |->
            LET rs == GroupRows(d, "Campaign", keys[k])
            IN  [Campaign |-> keys[k],
                 Spend |-> IntMean(ColOf(d, rs, "Spend")),
                 Revenue |-> IntMean(ColOf(d, rs, "Revenue")),
                 ROAS |-> FMean(ColOf(d, rs, "ROAS"))]]

Precedes(x, i, y, j, ties) ==
    IF IsNaN(x) \/ IsNaN(y)
    THEN (~IsNaN(x) /\ IsNaN(y)) \/ (IsNaN(x) /\ IsNaN(y) /\ i < j)
    ELSE \/ FGreater(x, y)
         \/ x = y /\ (IF ties = "kept" THEN i < j ELSE i > j)

Orderings(n) ==
    {p \in [1..n -> 1..n] : \A a, b \in 1..n : a # b => p[a] # p[b]}

SortValuesDesc(t, ties) ==
    LET p == CHOOSE q \in Orderings(Len(t)) :
                 \A a, b \in 1..Len(t) :
                     a < b => Precedes(t[q[a]].ROAS, q[a], t[q[b]].ROAS, q[b], ties)
    IN  [k \in 1..Len(t) |-> t[p[k]]]

(***************************************************************************)
(* The uploads Init draws.  A header is put together from the spellings of *)
(* each of the five columns the script knows (present under its name,      *)
(* under its Google Ads alias, under a name that differs in case, absent,  *)
(* or the Date both as Day and as Date); a row gives each kind of column   *)
(* its cell.                                                               *)
(***************************************************************************)
KindOf(name) ==
    CASE name = "Campaign" -> "c"
      [] name \in {"Date", "Day", "day"} -> "d"
      [] name \in {"Spend", "Cost"} -> "s"
      [] name \in {"Revenue", "Total conv. value"} -> "r"
      [] name = "Audience" -> "a"

NoFile == [present |-> FALSE, cols |-> <<>>, numeral |-> <<>>, rows |-> <<>>]

EmptyFile == [present |-> TRUE, cols |-> <<>>, numeral |-> <<>>, rows |-> <<>>]

CsvFile(header, lrows, spendIsNumeral) ==
    [present |-> TRUE,
     cols |-> header,
     numeral |-> [i \in 1..Len(header) |->
                    /\ Len(lrows) > 0
                    /\ \/ KindOf(header[i]) = "r"
                       \/ KindOf(header[i]) = "s" /\ spendIsNumeral],
     rows |-> [j \in 1..Len(lrows) |->
                 [i \in 1..Len(header) |-> lrows[j][KindOf(header[i])]]]]

Headers ==
    {c \o d \o s \o r \o a :
        c \in {<<"Campaign">>, <<>>},
        d \in {<<"Date">>, <<"Day">>, <<"day">>, <<>>, <<"Day", "Date">>},
        s \in {<<"Spend">>, <<"Cost">>, <<>>},
        r \in {<<"Revenue">>, <<"Total conv. value">>, <<>>},
        a \in {<<"Audience">>, <<>>}}

FullHeader == <<"Campaign", "Date", "Spend", "Revenue", "Audience">>

GoogleAdsHeader == <<"Campaign", "Day", "Cost", "Total conv. value">>

Campaigns == {"A", "B"}

\* "01/02/2025", a Saturday; "03/04/2025", a Thursday; "03/02/2025", a Monday
GoodDates == {<<1, 2, 2025>>, <<3, 4, 2025>>, <<3, 2, 2025>>}

\* "31/02/2025"
BadDate == <<31, 2, 2025>>

\* <<Spend, Revenue>> of a row: 0/0, 1/0, 0/1, and quotients below, at and above 1
AmountPairs == {<<0, 0>>, <<0, 1>>, <<1, 0>>, <<1, 1>>, <<1, 2>>, <<2, 1>>, <<2, 2>>}

ExampleRow == [c |-> "A", d |-> <<1, 2, 2025>>, s |-> 1, r |-> 2, a |-> "Gen Z"]

SchemaFiles ==
    {CsvFile(h, rows, TRUE) : h \in Headers, rows \in {<<>>, <<ExampleRow>>}}

AmountRows ==
    {[c |-> ca[1], d |-> <<1, 2, 2025>>, s |-> sr[1], r |-> sr[2], a |-> ca[2]] :
        ca \in {<<"A", "Gen Z">>, <<"A", "Teens">>, <<"B", "Gen Z">>},
        sr \in AmountPairs}

AmountFiles == {CsvFile(FullHeader, rows, TRUE) : rows \in SeqsUpTo(AmountRows, MaxRows)}

DateRows ==
    [c : Campaigns, d : GoodDates \cup {BadDate}, s : {1}, r : {1, 2}, a : {"Gen Z"}]

DateFiles == {CsvFile(FullHeader, rows, TRUE) : rows \in SeqsUpTo(DateRows, MaxRows)}

AdsRows ==
    {[c |-> x[1], d |-> <<1, 2, 2025>>, s |-> x[2], r |-> x[3], a |-> "-"] :
        x \in {<<"A", 1, 2>>, <<"B", 1, 2>>, <<"B", 2, 2>>, <<"A", 0, 0>>}}

AdsFiles == {CsvFile(GoogleAdsHeader, rows, TRUE) : rows \in SeqsUpTo(AdsRows, MaxRows)}

TextSpendRow == [c |-> "A", d |-> <<1, 2, 2025>>, s |-> "abc", r |-> 2, a |-> "Gen Z"]

TextSpendFiles ==
    {CsvFile(FullHeader, [j \in 1..k |-> TextSpendRow], FALSE) : k \in 1..MaxRows}

\* the uploads whose Spend cells are numerals
NumeralUploads ==
    {NoFile, EmptyFile} \cup SchemaFiles \cup AmountFiles \cup DateFiles \cup AdsFiles

(***************************************************************************)
(* The state a run starts in: nothing on the page, no variable assigned.   *)
(***************************************************************************)
Fresh ==
    /\ pc = "start"
    /\ out = <<>>
    /\ df = NoFrame
    /\ bound = {}
    /\ missing_cols = <<>>
    /\ err_text = ""
    /\ total_spend = 0
    /\ total_rev = 0
    /\ total_roas = <<0, 1>>
    /\ aud_df = <<>>
    /\ heat_data = <<>>
    /\ heat_axis = <<>>
    /\ ranking = <<>>

Init ==
    /\ uploaded_file \in NumeralUploads \/ uploaded_file \in TextSpendFiles
    /\ Fresh

kpiVars == <<total_spend, total_rev, total_roas>>

viewVars == <<aud_df, heat_data, heat_axis, ranking>>

\* lines 158-159: st.error(f"An unexpected error occurred: {e}")
Except(shown, e) ==
    /\ out' = out \o shown \o <<"error">>
    /\ err_text' = e
    /\ pc' = "done"

\* lines 7-33: page configuration, the sidebar, the title
Start ==
    /\ pc = "start"
    /\ out' = out \o <<"sidebar", "title">>
    /\ pc' = "branch"
    /\ UNCHANGED <<uploaded_file, df, bound, missing_cols, err_text, kpiVars, viewVars>>

\* lines 35-47: nothing uploaded yet
EmptyState ==
    /\ pc = "branch"
    /\ ~uploaded_file.present
    /\ out' = out \o <<"info", "markdown", "table">>
    /\ pc' = "done"
    /\ UNCHANGED <<uploaded_file, df, bound, missing_cols, err_text, kpiVars, viewVars>>

\* line 52
ReadCsv ==
    /\ pc = "branch"
    /\ uploaded_file.present
    /\ \/ /\ ReadCsvRaises(uploaded_file)
          /\ Except(<<>>, "EmptyDataError")
          /\ UNCHANGED <<df, bound>>
       \/ /\ ~ReadCsvRaises(uploaded_file)
          /\ df' = read_csv(uploaded_file)
          /\ bound' = bound \cup {"df"}
          /\ pc' = "rename"
          /\ UNCHANGED <<out, err_text>>
    /\ UNCHANGED <<uploaded_file, missing_cols, kpiVars, viewVars>>

\* lines 56-61
Rename ==
    /\ pc = "rename"
    /\ df' = RenameColumns(df)
    /\ pc' = "synth"
    /\ UNCHANGED <<uploaded_file, out, bound, missing_cols, err_text, kpiVars, viewVars>>

\* lines 64-67: np.random.choice(audiences, size=len(df)), one draw per row
SynthesizeAudience ==
    /\ pc = "synth"
    /\ \/ /\ ~Has(df.cols, "Audience")
          /\ out' = out \o <<"toast">>
          /\ \E labels \in [1..NRows(df) -> SeqToSet(audiences)] :
                df' = SetColumn(df, "Audience", "object", labels)
       \/ /\ Has(df.cols, "Audience")
          /\ UNCHANGED <<out, df>>
    /\ pc' = "check"
    /\ UNCHANGED <<uploaded_file, bound, missing_cols, err_text, kpiVars, viewVars>>

\* CheckColumns without the else of line 76: the run goes on after the error
CheckColumnsFallThrough ==
    /\ pc = "check"
    /\ missing_cols' = MissingCols(df)
    /\ bound' = bound \cup {"missing_cols"}
    /\ out' = (IF MissingCols(df) # <<>> THEN out \o <<"error_missing">> ELSE out)
    /\ pc' = "dates"
    /\ UNCHANGED <<uploaded_file, df, err_text, kpiVars, viewVars>>

\* lines 71-76
CheckColumns ==
    /\ pc = "check"
    /\ missing_cols' = MissingCols(df)
    /\ bound' = bound \cup {"missing_cols"}
    /\ \/ /\ MissingCols(df) # <<>>
          /\ out' = out \o <<"error_missing">>
          /\ pc' = "done"
       \/ /\ MissingCols(df) = <<>>
          /\ out' = out
          /\ pc' = "dates"
    /\ UNCHANGED <<uploaded_file, df, err_text, kpiVars, viewVars>>

\* lines 79-80
DeriveDates ==
    /\ pc = "dates"
    /\ \/ /\ ToDatetimeRaises(df)
          /\ Except(<<>>, "ValueError")
          /\ UNCHANGED df
       \/ /\ ~ToDatetimeRaises(df)
          /\ df' = ParseDates(df)
          /\ pc' = "kpis"
          /\ UNCHANGED <<out, err_text>>
    /\ UNCHANGED <<uploaded_file, bound, missing_cols, kpiVars, viewVars>>

\* lines 83-86
ComputeKpis ==
    /\ pc = "kpis"
    /\ \/ /\ RoasRaises(df)
          /\ Except(<<>>, "TypeError")
          /\ UNCHANGED <<df, bound, kpiVars>>
       \/ /\ ~RoasRaises(df)
          /\ df' = AddRoas(df)
          /\ total_spend' = TotalSpend(df)
          /\ total_rev' = TotalRev(df)
          /\ total_roas' = TotalRoas(TotalRev(df), TotalSpend(df))
          /\ bound' = bound \cup {"total_spend", "total_rev", "total_roas"}
          /\ pc' = "metrics"
          /\ UNCHANGED <<out, err_text>>
    /\ UNCHANGED <<uploaded_file, missing_cols, viewVars>>

\* lines 89-97: the three metrics, the divider, the tabs
ShowKpis ==
    /\ pc = "metrics"
    /\ out' = out \o <<"metric", "metric", "metric", "divider", "tabs">>
    /\ pc' = "scatter"
    /\ UNCHANGED <<uploaded_file, df, bound, missing_cols, err_text, kpiVars, viewVars>>

\* lines 100-110
ShowScatter ==
    /\ pc = "scatter"
    /\ \/ /\ ScatterRaises(df)
          /\ Except(<<"subheader">>, "ValueError")
       \/ /\ ~ScatterRaises(df)
          /\ out' = out \o <<"subheader", "scatter">>
          /\ pc' = "audience"
          /\ UNCHANGED err_text
    /\ UNCHANGED <<uploaded_file, df, bound, missing_cols, kpiVars, viewVars>>

\* lines 112-123
ShowAudience ==
    /\ pc = "audience"
    /\ aud_df' = AudienceTable(df)
    /\ bound' = bound \cup {"aud_df"}
    /\ out' = out \o <<"subheader", "bar">>
    /\ pc' = "heatmap"
    /\ UNCHANGED <<uploaded_file, df, missing_cols, err_text, kpiVars, heat_data,
                   heat_axis, ranking>>

\* lines 126-140
ShowHeatmap ==
    /\ pc = "heatmap"
    /\ heat_data' = HeatData(df)
    /\ heat_axis' = CategoryAxis(HeatData(df), days_order)
    /\ bound' = bound \cup {"heat_data"}
    /\ out' = out \o <<"subheader", "heatmap">>
    /\ pc' = "ranking"
    /\ UNCHANGED <<uploaded_file, df, missing_cols, err_text, kpiVars, aud_df, ranking>>

\* lines 143-156
ShowRanking ==
    /\ pc = "ranking"
    /\ \E ties \in TieOrders : ranking' = SortValuesDesc(GroupMeans(df), ties)
    /\ bound' = bound \cup {"ranking"}
    /\ out' = out \o <<"subheader", "dataframe">>
    /\ pc' = "done"
    /\ UNCHANGED <<uploaded_file, df, missing_cols, err_text, kpiVars, aud_df,
                   heat_data, heat_axis>>

\* Streamlit runs the script again, top to bottom, on the next interaction;
\* the uploader keeps its file.
Rerun ==
    /\ pc = "done"
    /\ pc' = "start"
    /\ out' = <<>>
    /\ df' = NoFrame
    /\ bound' = {}
    /\ missing_cols' = <<>>
    /\ err_text' = ""
    /\ total_spend' = 0
    /\ total_rev' = 0
    /\ total_roas' = <<0, 1>>
    /\ aud_df' = <<>>
    /\ heat_data' = <<>>
    /\ heat_axis' = <<>>
    /\ ranking' = <<>>
    /\ UNCHANGED uploaded_file

Next ==
    \/ Start
    \/ EmptyState
    \/ ReadCsv
    \/ Rename
    \/ SynthesizeAudience
    \/ CheckColumns
    \/ DeriveDates
    \/ ComputeKpis
    \/ ShowKpis
    \/ ShowScatter
    \/ ShowAudience
    \/ ShowHeatmap
    \/ ShowRanking
    \/ Rerun

Spec == Init /\ [][Next]_vars

(***************************************************************************)
(* Properties.  What a run has put on the page is read off out; the upload *)
(* it ran on is uploaded_file.                                             *)
(***************************************************************************)
Shown(kind) == kind \in SeqToSet(out)

Times(kind) == Cardinality({i \in 1..Len(out) : out[i] = kind})

Required == {"Campaign", "Date", "Spend", "Revenue", "Audience"}

Results == {"metric", "scatter", "bar", "heatmap", "dataframe", "table"}

Derived == {"total_spend", "total_rev", "total_roas", "aud_df", "heat_data", "ranking"}

UploadHasAudience == Has(uploaded_file.cols, "Audience")

\* C1, as claimed: once the missing-columns error is on the page, the run has
\* halted and, the page's sidebar and title apart, that error is the only
\* element the run has emitted.
C1_ErrorIsOnlyOutput ==
    Shown("error_missing") =>
        /\ pc = "done"
        /\ SelectSeq(out, LAMBDA e : e \notin {"sidebar", "title"}) = <<"error_missing">>

\* C1, amended: once the missing-columns error is on the page, the run has
\* halted; the only other element it has emitted besides the sidebar and
\* title is the advisory notice of Audience synthesis, shown exactly when the
\* upload had no Audience column; no KPI, chart, table or generic error is
\* shown, and no date parsing, ROAS derivation or aggregation has run.
C1_MissingColumnsHalt ==
    Shown("error_missing") =>
        /\ pc = "done"
        /\ SelectSeq(out, LAMBDA e : e \notin {"sidebar", "title", "toast"})
              = <<"error_missing">>
        /\ Times("toast") = (IF UploadHasAudience THEN 0 ELSE 1)
        /\ err_text = ""
        /\ bound \cap Derived = {}
        /\ ~Has(df.cols, "ROAS") /\ ~Has(df.cols, "Day")
        /\ \A i \in 1..Len(df.dtypes) : df.dtypes[i] \in {"int64", "object"}

C1_Witness ==
    /\ Shown("error_missing") /\ Shown("toast")
    /\ NRows(df) = 1
    /\ uploaded_file.cols = <<"Campaign", "Day", "Cost">>

\* C2: once the column check has run, the missing-columns error is on the
\* page if and only if some required column is absent from the frame, and the
\* names it lists are exactly the absent required columns, each once; before
\* the check the error is not shown.  An upload lacking only Revenue lists
\* Revenue alone.
C2_MissingColumnsExact ==
    /\ "missing_cols" \notin bound => ~Shown("error_missing")
    /\ "missing_cols" \in bound =>
          /\ Shown("error_missing") <=> (Required \ SeqToSet(df.cols)) # {}
          /\ SeqToSet(missing_cols) = Required \ SeqToSet(df.cols)
          /\ Len(missing_cols) = Cardinality(SeqToSet(missing_cols))
          /\ uploaded_file.cols = <<"Campaign", "Date", "Spend", "Audience">>
                => missing_cols = <<"Revenue">>
          /\ uploaded_file.cols = <<"Campaign", "Date", "Spend", "Revenue", "Audience">>
                => ~Shown("error_missing")

C2_Witness ==
    /\ Shown("error_missing")
    /\ missing_cols = <<"Campaign", "Date", "Revenue">>
    /\ uploaded_file.cols = <<"day", "Cost">>

\* C4: right after the renaming, the frame has the upload's columns in the
\* upload's positions with the upload's cells; a column named exactly Day,
\* Cost or 'Total conv. value' is now Date, Spend or Revenue, and every other
\* column (a 'day' included) has the name it had.
C4_RenameExact ==
    pc = "synth" =>
        /\ Len(df.cols) = Len(uploaded_file.cols)
        /\ df.rows = uploaded_file.rows
        /\ \A i \in 1..Len(uploaded_file.cols) :
              LET old == uploaded_file.cols[i]
              IN  /\ old = "Day" => df.cols[i] = "Date"
                  /\ old = "Cost" => df.cols[i] = "Spend"
                  /\ old = "Total conv. value" => df.cols[i] = "Revenue"
                  /\ old \notin {"Day", "Cost", "Total conv. value"} => df.cols[i] = old

C4_Witness ==
    /\ pc = "synth"
    /\ uploaded_file.cols = <<"Campaign", "day", "Cost", "Revenue", "Audience">>
    /\ df.cols = <<"Campaign", "day", "Spend", "Revenue", "Audience">>
    /\ NRows(df) = 1

\* C6: right after the synthesis step, if the upload had no Audience column
\* the frame has one, appended after the upload's columns, whose cell in
\* every row (of zero or more) is one of the five labels, and the notice is
\* shown; if the upload had an Audience column the frame's columns and cells
\* are the upload's and no notice is shown.
C6_AudienceSynthesis ==
    pc = "check" =>
        /\ NRows(df) = Len(uploaded_file.rows)
        /\ Count(df.cols, "Audience") = 1
        /\ ~UploadHasAudience =>
              /\ Shown("toast")
              /\ Len(df.cols) = Len(uploaded_file.cols) + 1
              /\ df.cols[Len(df.cols)] = "Audience"
              /\ \A j \in 1..NRows(df) :
                    /\ df.rows[j][Len(df.cols)]
                          \in {"Gen Z", "Millennials", "Gen X", "Boomers", "All"}
                    /\ SubSeq(df.rows[j], 1, Len(uploaded_file.cols)) = uploaded_file.rows[j]
        /\ UploadHasAudience =>
              /\ ~Shown("toast")
              /\ Len(df.cols) = Len(uploaded_file.cols)
              /\ df.rows = uploaded_file.rows

C6_Witness ==
    /\ pc = "check"
    /\ ~UploadHasAudience
    /\ NRows(df) = 2
    /\ Column(df, "Audience") = <<"Boomers", "All">>

\* C3, as claimed: a run that ends with the generic error shows no KPI, chart
\* or table.
C3_NoPartialResults ==
    Shown("error") => \A i \in 1..Len(out) : out[i] \notin Results

RECURSIVE SumOver(_, _)
SumOver(f, S) ==
    IF S = {} THEN 0
    ELSE LET x == CHOOSE y \in S : TRUE IN f[x] + SumOver(f, S \ {x})

RECURSIVE ProdOver(_, _)
ProdOver(f, S) ==
    IF S = {} THEN 1
    ELSE LET x == CHOOSE y \in S : TRUE IN f[x] * ProdOver(f, S \ {x})

RowsWith(name, key) == {j \in 1..NRows(df) : Column(df, name)[j] = key}

\* The frame a run has after the synthesis step when every draw gives label.
FrameWithLabel(label) ==
    LET base == RenameColumns(read_csv(uploaded_file))
    IN  SetColumn(base, "Audience", "object", [j \in 1..NRows(base) |-> label])

DerivesKpis(d) ==
    /\ MissingCols(d) = <<>>
    /\ ~ToDatetimeRaises(d)
    /\ ~RoasRaises(ParseDates(d))

LastElement(d) ==
    IF MissingCols(d) # <<>> THEN "error_missing"
    ELSE IF ~DerivesKpis(d) THEN "error"
    ELSE IF ScatterRaises(AddRoas(ParseDates(d))) THEN "error"
    ELSE "dataframe"

\* C5: a finished run that synthesized the Audience column agrees with the run
\* on the same upload in which every draw gives one fixed label (for each of
\* the five labels, hence with every other run): the same element ends the
\* page, the same steps ran, and total_spend, total_rev, total_roas, the
\* per-row ROAS, the heatmap aggregate and axis, and the leaderboard (the
\* same rows, in the same order under the same tie order of the sort) are
\* equal.
C5_AudienceLabelsDoNotInterfere ==
    (pc = "done" /\ Shown("toast")) =>
        \A label \in SeqToSet(audiences) :
            LET d0 == FrameWithLabel(label)
            IN  /\ out[Len(out)] = LastElement(d0)
                /\ ("total_roas" \in bound) <=> DerivesKpis(d0)
                /\ "total_roas" \in bound =>
                      LET d2 == AddRoas(ParseDates(d0))
                      IN  /\ total_spend = TotalSpend(d2)
                          /\ total_rev = TotalRev(d2)
                          /\ total_roas = TotalRoas(TotalRev(d2), TotalSpend(d2))
                          /\ Column(df, "ROAS") = Column(d2, "ROAS")
                          /\ "heat_data" \in bound =>
                                /\ heat_data = HeatData(d2)
                                /\ heat_axis = CategoryAxis(HeatData(d2), days_order)
                          /\ "ranking" \in bound =>
                                /\ \A t \in TieOrders :
                                      SortValuesDesc(GroupMeans(d2), t)
                                          = SortValuesDesc(GroupMeans(df), t)
                                /\ \E t \in TieOrders :
                                      ranking = SortValuesDesc(GroupMeans(d2), t)

C5_Witness ==
    /\ pc = "done" /\ Shown("toast") /\ Shown("dataframe")
    /\ Column(df, "Audience") = <<"Gen X", "Boomers">>
    /\ Column(df, "Campaign") = <<"B", "A">>
    /\ Len(ranking) = 2 /\ ranking[1].Campaign = "B"

\* C7: once the KPIs are computed, total_roas is the quotient total_rev /
\* total_spend when total_spend > 0 and 0 otherwise, and it is finite; the
\* KPI step raises only on text cells; and the ROAS of a row whose Spend is 0
\* is infinite or NaN, not clamped.
C7_AggregateRoasGuarded ==
    /\ "total_roas" \in bound =>
          /\ total_roas[2] > 0
          /\ total_spend > 0 => total_roas[1] * total_spend = total_rev * total_roas[2]
          /\ total_spend <= 0 => total_roas = <<0, 1>>
          /\ \A j \in 1..NRows(df) :
                Column(df, "Spend")[j] = 0 =>
                    Column(df, "ROAS")[j]
                        = (IF Column(df, "Revenue")[j] = 0 THEN <<0, 0>> ELSE <<1, 0>>)
    /\ err_text = "TypeError" =>
          \E i \in 1..Len(uploaded_file.cols) :
              /\ KindOf(uploaded_file.cols[i]) \in {"s", "r"}
              /\ ~uploaded_file.numeral[i]

C7_Witness ==
    /\ "total_roas" \in bound
    /\ total_spend = 0 /\ total_rev = 2
    /\ total_roas = <<0, 1>>
    /\ Column(df, "ROAS") = <<<<1, 0>>, <<1, 0>>>>

CampaignRank(c) == CHOOSE i \in 1..2 : <<"A", "B">>[i] = c

\* C8, as claimed: the leaderboard has one row per distinct Campaign, in
\* descending order of mean ROAS, and two campaigns with equal mean ROAS are
\* in the order of the grouped table (the order of their names).
C8_StableDescending ==
    Shown("dataframe") =>
        /\ {ranking[k].Campaign : k \in 1..Len(ranking)} = SeqToSet(Column(df, "Campaign"))
        /\ Len(ranking) = Cardinality(SeqToSet(Column(df, "Campaign")))
        /\ \A a, b \in 1..Len(ranking) :
              a < b =>
                 /\ ~FGreater(ranking[b].ROAS, ranking[a].ROAS)
                 /\ ranking[a].ROAS = ranking[b].ROAS =>
                       CampaignRank(ranking[a].Campaign) < CampaignRank(ranking[b].Campaign)

WeekdayIndex(day) ==
    CHOOSE i \in 1..7 :
        <<"Monday", "Tuesday", "Wednesday", "Thursday", "Friday", "Saturday", "Sunday">>[i]
            = day

\* C9, as claimed: the Day values of the heatmap aggregate are in the order
\* Monday to Sunday.
C9_AggregateInWeekdayOrder ==
    Shown("heatmap") =>
        \A a, b \in 1..Len(heat_data) :
            a < b => WeekdayIndex(heat_data[a].Day) <= WeekdayIndex(heat_data[b].Day)

PermuteRows(d, p) == [d EXCEPT !.rows = [j \in 1..NRows(d) |-> d.rows[p[j]]]]

\* C9, amended: the Day axis handed to the heatmap lists the weekdays of the
\* data, each once, in the order Monday to Sunday, and neither the axis nor
\* the aggregate changes when the rows of the input are reordered.
C9_AxisInWeekdayOrder ==
    Shown("heatmap") =>
        /\ \A a, b \in 1..Len(heat_axis) :
              a < b => WeekdayIndex(heat_axis[a]) < WeekdayIndex(heat_axis[b])
        /\ SeqToSet(heat_axis) = SeqToSet(Column(df, "Day"))
        /\ {heat_data[k].Day : k \in 1..Len(heat_data)} = SeqToSet(Column(df, "Day"))
        /\ \A p \in Orderings(NRows(df)) :
              /\ HeatData(PermuteRows(df, p)) = heat_data
              /\ CategoryAxis(HeatData(PermuteRows(df, p)), days_order) = heat_axis

C9_Witness ==
    /\ Shown("heatmap")
    /\ uploaded_file.cols = <<"Campaign", "Date", "Spend", "Revenue", "Audience">>
    /\ Column(uploaded_file, "Date") = <<<<1, 2, 2025>>, <<3, 4, 2025>>>>
    /\ Column(df, "Day") = <<"Saturday", "Thursday">>
    /\ heat_axis = <<"Thursday", "Saturday">>
    /\ heat_data[1].Day = "Saturday"

\* C10: each leaderboard row's ROAS is the arithmetic mean of Revenue/Spend
\* over the campaign's rows (infinite when one of them has Spend 0), and each
\* Audience row's ROAS is the audience's summed Revenue over its summed Spend.
C10_MeanOfRatiosVsRatioOfSums ==
    /\ Shown("dataframe") =>
          \A k \in 1..Len(ranking) :
              LET J == RowsWith("Campaign", ranking[k].Campaign)
                  sp == Column(df, "Spend")
                  rv == Column(df, "Revenue")
                  P == ProdOver(sp, J)
                  x == ranking[k].ROAS
              IN  /\ J # {}
                  /\ \A j \in J : sp[j] + rv[j] > 0
                  /\ IF \A j \in J : sp[j] > 0
                     THEN /\ x[2] > 0
                          /\ x[1] * (Cardinality(J) * P)
                                = x[2] * SumOver([j \in J |-> rv[j] * (P \div sp[j])], J)
                     ELSE x = <<1, 0>>
    /\ Shown("bar") =>
          \A k \in 1..Len(aud_df) :
              LET J == RowsWith("Audience", aud_df[k].Audience)
                  S == SumOver(Column(df, "Spend"), J)
                  R == SumOver(Column(df, "Revenue"), J)
                  x == aud_df[k].ROAS
              IN  /\ J # {}
                  /\ aud_df[k].Spend = S /\ aud_df[k].Revenue = R
                  /\ IF S > 0 THEN x[2] > 0 /\ x[1] * S = x[2] * R ELSE x = <<1, 0>>

C10_Witness ==
    /\ Shown("dataframe")
    /\ Column(df, "Spend") = <<1, 2>> /\ Column(df, "Revenue") = <<2, 1>>
    /\ Column(df, "Campaign") = <<"A", "A">>
    /\ Column(df, "Audience") = <<"Gen Z", "Gen Z">>
    /\ ranking[1].ROAS = <<5, 4>>
    /\ aud_df[1].ROAS = <<1, 1>>

====
